---- MODULE Spec2Model ----
(***************************************************************************)
(* StreamBridge: the stream handler of the Stremio addon (lib/addon.js,    *)
(* createAddon.stream) and the Jellyfin client it drives (lib/jellyfin.js) *)
(* as a state machine.  One stream() call is followed from the request     *)
(* through each upstream await point to the returned { streams } object or *)
(* to the exception that leaves the handler.                               *)
(*                                                                         *)
(* JavaScript strings that the code takes apart (identifiers, provider     *)
(* keys and values) are sequences of one-character strings; strings that   *)
(* are only passed around or concatenated (item ids, names, titles) are    *)
(* TLA+ strings.  A JavaScript object is a record whose DOMAIN holds the   *)
(* properties that are present; null is the record NullValue.              *)
(***************************************************************************)
EXTENDS Integers, Sequences, FiniteSets, TLC

VARIABLES
    pc,          \* position of the call: idle, search, lookup, episodes, fallback, done, raised
    type,        \* stream({type, id}).type
    id,          \* stream({type, id}).id
    given,       \* how the caller composed id: [base, tail] (history of the input)
    stremioId,   \* let stremioId
    season,      \* let season  (<<>> is null, <<n>> is the number n)
    episode,     \* let episode (<<>> is null, <<n>> is the number n)
    request,     \* the upstream request the call is awaiting (or issued last)
    calls,       \* the upstream requests issued so far by this call, in order
    response,    \* the upstream response delivered last
    items,       \* const items = await client.resolveStremioId(...)
    item,        \* const item = items[0]
    targetItem,  \* let targetItem
    result,      \* the value stream() returned
    built,       \* the descriptor of one buildStream(...) call
    frames,      \* the locals of the stream() calls in flight, one per call slot
    catalogue,   \* the upstream catalogue the calls in flight are answered from
    metaCache,   \* const metaCache = new Map(), shared by every call of the process
    answers      \* what the stream() calls returned so far, per request, in order

\* the state of the call followed step by step
single == <<pc, type, id, given, stremioId, season, episode, request, calls,
            response, items, item, targetItem, result, built>>

\* the state of the process serving several calls
served == <<frames, catalogue, metaCache, answers>>

vars == <<single, served>>

----------------------------------------------------------------------------
(* JavaScript values *)

NullValue == [IsNull |-> TRUE]

IsNull(v) == v = NullValue

Has(obj, field) == field \in DOMAIN obj

None == <<>>
Some(n) == <<n>>

----------------------------------------------------------------------------
(* Strings as sequences of characters *)

UpperCase == <<"A","B","C","D","E","F","G","H","I","J","K","L","M",
               "N","O","P","Q","R","S","T","U","V","W","X","Y","Z">>
LowerCase == <<"a","b","c","d","e","f","g","h","i","j","k","l","m",
               "n","o","p","q","r","s","t","u","v","w","x","y","z">>

Range(f) == {f[i] : i \in DOMAIN f}

ToLowerChar(c) ==
    IF c \in Range(UpperCase)
    THEN LowerCase[CHOOSE i \in DOMAIN UpperCase : UpperCase[i] = c]
    ELSE c

\* String.prototype.toLowerCase
ToLowerCase(s) == [i \in DOMAIN s |-> ToLowerChar(s[i])]

\* String.prototype.startsWith
StartsWith(s, prefix) ==
    /\ Len(s) >= Len(prefix)
    /\ SubSeq(s, 1, Len(prefix)) = prefix

\* String.prototype.indexOf from position i, 1-based; 0 when pattern does not occur
RECURSIVE IndexFrom(_, _, _)
IndexFrom(s, pattern, i) ==
    IF i + Len(pattern) - 1 > Len(s) THEN 0
    ELSE IF SubSeq(s, i, i + Len(pattern) - 1) = pattern THEN i
    ELSE IndexFrom(s, pattern, i + 1)

IndexOf(s, pattern) == IndexFrom(s, pattern, 1)

\* String.prototype.replace(pattern, replacement) with a string pattern:
\* only the first occurrence is replaced
Replace(s, pattern, replacement) ==
    LET at == IndexOf(s, pattern)
    IN  IF at = 0 THEN s
        ELSE SubSeq(s, 1, at - 1) \o replacement
             \o SubSeq(s, at + Len(pattern), Len(s))

\* String.prototype.split(':')
RECURSIVE Split(_, _)
Split(s, sep) ==
    LET at == IndexOf(s, <<sep>>)
    IN  IF at = 0 THEN <<s>>
        ELSE <<SubSeq(s, 1, at - 1)>> \o Split(SubSeq(s, at + 1, Len(s)), sep)

\* Array.prototype.join(':')
RECURSIVE Join(_, _)
Join(parts, sep) ==
    IF Len(parts) = 0 THEN <<>>
    ELSE IF Len(parts) = 1 THEN parts[1]
    ELSE parts[1] \o <<sep>> \o Join(Tail(parts), sep)

HexDigits == <<"0","1","2","3","4","5","6","7","8","9","a","b","c","d","e","f">>

\* the value of character c as a digit in the given radix, -1 when it is none
DigitValue(c, radix) ==
    LET lc   == ToLowerChar(c)
        hits == {i \in 1..radix : HexDigits[i] = lc}
    IN  IF hits = {} THEN -1 ELSE (CHOOSE i \in hits : TRUE) - 1

RECURSIVE StripLeadingSpace(_)
StripLeadingSpace(s) ==
    IF Len(s) > 0 /\ s[1] = " " THEN StripLeadingSpace(Tail(s)) ELSE s

\* the digits of the longest prefix of s that is a numeral in the radix
RECURSIVE DigitPrefix(_, _)
DigitPrefix(s, radix) ==
    IF Len(s) > 0 /\ DigitValue(s[1], radix) >= 0
    THEN <<DigitValue(s[1], radix)>> \o DigitPrefix(Tail(s), radix)
    ELSE <<>>

RECURSIVE NumeralValue(_, _)
NumeralValue(digits, radix) ==
    IF Len(digits) = 0 THEN 0
    ELSE NumeralValue(SubSeq(digits, 1, Len(digits) - 1), radix) * radix
         + digits[Len(digits)]

\* parseInt(string) with no radix argument: leading white space is skipped,
\* a sign is read, a 0x/0X prefix selects radix 16, the longest numeral
\* prefix is converted and whatever follows it is ignored; NaN (None) when
\* no digit is found.
ParseInt(s) ==
    LET t        == StripLeadingSpace(s)
        negative == Len(t) > 0 /\ t[1] = "-"
        u        == IF Len(t) > 0 /\ t[1] \in {"-", "+"} THEN Tail(t) ELSE t
        hex      == Len(u) >= 2 /\ u[1] = "0" /\ u[2] \in {"x", "X"}
        radix    == IF hex THEN 16 ELSE 10
        w        == IF hex THEN SubSeq(u, 3, Len(u)) ELSE u
        digits   == DigitPrefix(w, radix)
    IN  IF digits = <<>> THEN None
        ELSE Some((IF negative THEN -1 ELSE 1) * NumeralValue(digits, radix))

IsNaN(n) == n = None

----------------------------------------------------------------------------
(* createAddon.stream: the identifier parser *)

\* a parser that cuts the base at the first colon instead of the last two
ParseIdFirstSegment(t, i) ==
    LET parts   == Split(i, ":")
        maybeEp == ParseInt(parts[Len(parts)])
        maybeSeason == IF Len(parts) >= 2 THEN ParseInt(parts[Len(parts) - 1]) ELSE None
    IN  IF t = "series" /\ Len(parts) >= 3 /\ ~IsNaN(maybeEp) /\ ~IsNaN(maybeSeason)
        THEN [stremioId |-> parts[1], season |-> maybeSeason, episode |-> maybeEp]
        ELSE [stremioId |-> i, season |-> None, episode |-> None]

\* lines 219-234: stremioId, season and episode after the parse
ParseId(t, i) ==
    LET parts       == Split(i, ":")
        maybeEp     == ParseInt(parts[Len(parts)])
        maybeSeason == IF Len(parts) >= 2 THEN ParseInt(parts[Len(parts) - 1]) ELSE None
    IN  IF t = "series" /\ Len(parts) >= 3 /\ ~IsNaN(maybeEp) /\ ~IsNaN(maybeSeason)
        THEN [stremioId |-> Join(SubSeq(parts, 1, Len(parts) - 2), ":"),
              season    |-> maybeSeason,
              episode   |-> maybeEp]
        ELSE [stremioId |-> i, season |-> None, episode |-> None]

----------------------------------------------------------------------------
(* JellyfinClient: configuration and URL builders *)

BaseUrl    == "http://jellyfin"      \* this.baseUrl
ApiKey     == "KEY"                  \* this.apiKey
ServerName == "Jellyfin"             \* config.serverName || 'Jellyfin'
TitlePrefix == "[tv] "               \* the television emoji and a space

\* `${obj.field}`: the text a template literal renders for a property
PropText(obj, field) == IF Has(obj, field) THEN obj[field] ELSE "undefined"

\* a property used as a condition: present and not the empty string
TruthyText(obj, field) == Has(obj, field) /\ obj[field] # ""

\* JellyfinClient.streamUrl
StreamUrl(itemId) ==
    BaseUrl \o "/Videos/" \o itemId \o "/stream?static=true&api_key=" \o ApiKey

\* JellyfinClient.getSubtitleUrl
GetSubtitleUrl(itemId, subtitleIndex) ==
    BaseUrl \o "/Videos/" \o itemId \o "/Subtitles/" \o ToString(subtitleIndex)
    \o "/Stream.srt?api_key=" \o ApiKey

----------------------------------------------------------------------------
(* JellyfinClient: upstream requests *)

PImdb  == <<"I","m","d","b">>
PTmdb  == <<"T","m","d","b">>
PTvdb  == <<"T","v","d","b">>
PAniDb == <<"A","n","i","D","b">>

PrefixTt       == <<"t","t">>
PrefixTmdb     == <<"t","m","d","b",":">>
PrefixTvdb     == <<"t","v","d","b",":">>
PrefixAnidb    == <<"a","n","i","d","b",":">>
PrefixJellyfin == <<"j","e","l","l","y","f","i","n",":">>

NoRequest == [call |-> "none"]

\* findByProviderId, lines 33-43: GET /Users/{userId}/Items
ItemsRequest(providerId, providerValue, itemType) ==
    [call                |-> "Items",
     providerId          |-> providerId,
     providerValue       |-> providerValue,
     AnyProviderIdEquals |-> providerId \o <<".">> \o providerValue,
     IncludeItemTypes    |-> IF itemType # "null"
                             THEN (IF itemType = "movie" THEN "Movie" ELSE "Series")
                             ELSE "Movie,Series"]

\* resolveStremioId, lines 84-86: GET /Users/{userId}/Items/{jellyfinId}
ItemRequest(jellyfinId) ==
    [call |-> "Item", jellyfinId |-> jellyfinId]

\* getEpisode, lines 100-104: GET /Shows/{seriesId}/Episodes with SeasonNumber
EpisodesRequest(seriesId, s, e) ==
    [call |-> "Episodes", seriesId |-> seriesId, SeasonNumber |-> s,
     season |-> s, episode |-> e]

\* getEpisodeFallback, lines 129-132: GET /Shows/{seriesId}/Episodes
AllEpisodesRequest(seriesId, s, e) ==
    [call |-> "AllEpisodes", seriesId |-> seriesId,
     season |-> s, episode |-> e]

\* a resolver that passes the whole identifier as the provider value
ResolveRequestKeepPrefix(sid, t) ==
    IF StartsWith(sid, PrefixTt) THEN ItemsRequest(PImdb, sid, t)
    ELSE IF StartsWith(sid, PrefixTmdb) THEN ItemsRequest(PTmdb, sid, t)
    ELSE IF StartsWith(sid, PrefixTvdb) THEN ItemsRequest(PTvdb, sid, t)
    ELSE IF StartsWith(sid, PrefixAnidb) THEN ItemsRequest(PAniDb, sid, t)
    ELSE IF StartsWith(sid, PrefixJellyfin)
         THEN ItemRequest(Replace(sid, PrefixJellyfin, <<>>))
    ELSE NoRequest

\* resolveStremioId, lines 73-91: the request the identifier leads to
ResolveRequest(sid, t) ==
    IF StartsWith(sid, PrefixTt) THEN ItemsRequest(PImdb, sid, t)
    ELSE IF StartsWith(sid, PrefixTmdb)
         THEN ItemsRequest(PTmdb, Replace(sid, PrefixTmdb, <<>>), t)
    ELSE IF StartsWith(sid, PrefixTvdb)
         THEN ItemsRequest(PTvdb, Replace(sid, PrefixTvdb, <<>>), t)
    ELSE IF StartsWith(sid, PrefixAnidb)
         THEN ItemsRequest(PAniDb, Replace(sid, PrefixAnidb, <<>>), t)
    ELSE IF StartsWith(sid, PrefixJellyfin)
         THEN ItemRequest(Replace(sid, PrefixJellyfin, <<>>))
    ELSE NoRequest

----------------------------------------------------------------------------
(* Upstream responses: axios either throws (network error, timeout, non-2xx *)
(* status) or resolves with the body in response.data                       *)

Failed == [status |-> "error"]
Ok(data) == [status |-> "ok", data |-> data]

\* data.Items || []  (reading a property of a null body throws)
ItemsOf(data) == IF Has(data, "Items") THEN data.Items ELSE <<>>

----------------------------------------------------------------------------
(* JellyfinClient.findByProviderId: the local filter, lines 47-60 *)

\* a filter that compares the provider value exactly, case included
LocalMatchCaseSensitive(candidate, providerId, providerValue) ==
    LET providers == IF Has(candidate, "ProviderIds") THEN candidate.ProviderIds
                     ELSE <<>>
    IN  \E key \in DOMAIN providers :
            /\ ToLowerCase(key) = ToLowerCase(providerId)
            /\ providers[key] = providerValue

\* the predicate of items.filter(...), lines 49-60
LocalMatch(candidate, providerId, providerValue) ==
    LET normalizedValue == ToLowerCase(providerValue)
        providers == IF Has(candidate, "ProviderIds") THEN candidate.ProviderIds
                     ELSE <<>>
    IN  \E key \in DOMAIN providers :
            /\ ToLowerCase(key) = ToLowerCase(providerId)
            /\ ToLowerCase(providers[key]) = normalizedValue

\* findByProviderId from the response on, lines 45-67
FindByProviderId(req, resp) ==
    IF resp.status = "error" THEN <<>>                  \* catch: return []
    ELSE IF IsNull(resp.data) THEN <<>>                 \* TypeError, caught
    ELSE SelectSeq(ItemsOf(resp.data),
                   LAMBDA c : LocalMatch(c, req.providerId, req.providerValue))

\* resolveStremioId, native branch, lines 83-90
LookupItem(resp) ==
    IF resp.status = "error" THEN <<>> ELSE <<resp.data>>

----------------------------------------------------------------------------
(* buildStream and its helpers *)

\* streams.find(s => s.Type === 'Video'): the index of the first video
\* stream, 0 when there is none, -1 when a null entry is read first
RECURSIVE FindVideo(_, _)
FindVideo(streams, i) ==
    IF i > Len(streams) THEN 0
    ELSE IF IsNull(streams[i]) THEN -1
    ELSE IF Has(streams[i], "Type") /\ streams[i].Type = "Video" THEN i
    ELSE FindVideo(streams, i + 1)

\* getVideoHeight, lines 399-407: None stands for null and undefined
GetVideoHeight(mediaSource) ==
    LET streams == IF Has(mediaSource, "MediaStreams")
                   THEN mediaSource.MediaStreams ELSE <<>>
        at == FindVideo(streams, 1)
    IN  IF at = -1 THEN None                            \* catch: return null
        ELSE IF at = 0 THEN None
        ELSE IF Has(streams[at], "Height") THEN Some(streams[at].Height)
        ELSE None

\* thresholds compared with > instead of >=
ResolutionLabelExclusive(height) ==
    IF height = None \/ height = Some(0) THEN ""
    ELSE IF height[1] > 2160 THEN "4K"
    ELSE IF height[1] > 1080 THEN "1080p"
    ELSE IF height[1] > 720 THEN "720p"
    ELSE ToString(height[1]) \o "p"

\* lines 372-377: the label of a height; "" when the height is falsy
ResolutionLabel(height) ==
    IF height = None \/ height = Some(0) THEN ""
    ELSE IF height[1] >= 2160 THEN "4K"
    ELSE IF height[1] >= 1080 THEN "1080p"
    ELSE IF height[1] >= 720 THEN "720p"
    ELSE ToString(height[1]) \o "p"

\* lines 369-381: let qualityLabel
QualityLabel(anItem, mediaSource) ==
    IF IsNull(mediaSource) THEN ""
    ELSE LET resolution == ResolutionLabel(GetVideoHeight(mediaSource))
         IN  IF TruthyText(mediaSource, "Name")
                /\ (~Has(anItem, "Name") \/ mediaSource.Name # anItem.Name)
             THEN (IF resolution # ""
                   THEN resolution \o " - " \o mediaSource.Name   \* an en dash in the source
                   ELSE mediaSource.Name)
             ELSE resolution

\* line 383: const title
TitleOf(qualityLabel) ==
    IF qualityLabel # "" THEN TitlePrefix \o ServerName \o "\n" \o qualityLabel
    ELSE TitlePrefix \o ServerName

\* the subtitle track of one media stream, lines 220-225
SubtitleTrack(source, s) ==
    [id    |-> ToString(s.Index),
     url   |-> GetSubtitleUrl(PropText(source, "Id"), s.Index),
     lang  |-> IF TruthyText(s, "Language") THEN s.Language ELSE "und",
     label |-> IF TruthyText(s, "DisplayTitle") THEN s.DisplayTitle
               ELSE IF TruthyText(s, "Language") THEN s.Language
               ELSE "Legenda"]

\* an extraction that keeps every subtitle stream, embedded ones included
ExtractSubtitlesUnfiltered(mediaSources) ==
    IF Len(mediaSources) = 0 THEN [threw |-> FALSE, value |-> <<>>]
    ELSE LET source  == mediaSources[1]
             streams == IF Has(source, "MediaStreams") THEN source.MediaStreams
                        ELSE <<>>
             kept    == SelectSeq(streams, LAMBDA s :
                            /\ ~IsNull(s)
                            /\ Has(s, "Type") /\ s.Type = "Subtitle")
         IN  IF \E i \in DOMAIN streams : IsNull(streams[i])
             THEN [threw |-> TRUE]
             ELSE [threw |-> FALSE,
                   value |-> [i \in DOMAIN kept |-> SubtitleTrack(source, kept[i])]]

\* JellyfinClient.extractSubtitles, lines 214-226; threw: the filter callback
\* read a property of a null media stream
ExtractSubtitles(mediaSources) ==
    IF Len(mediaSources) = 0 THEN [threw |-> FALSE, value |-> <<>>]
    ELSE LET source  == mediaSources[1]
             streams == IF Has(source, "MediaStreams") THEN source.MediaStreams
                        ELSE <<>>
             kept    == SelectSeq(streams, LAMBDA s :
                            /\ ~IsNull(s)
                            /\ Has(s, "Type") /\ s.Type = "Subtitle"
                            /\ ~(Has(s, "IsExternal") /\ s.IsExternal = FALSE))
         IN  IF \E i \in DOMAIN streams : IsNull(streams[i])
             THEN [threw |-> TRUE]
             ELSE [threw |-> FALSE,
                   value |-> [i \in DOMAIN kept |-> SubtitleTrack(source, kept[i])]]

\* a grouping key that is always the item's own id
GroupOfItemId(anItem) == PropText(anItem, "Id")

\* item.SeriesId || item.Id, rendered
GroupOf(anItem) ==
    IF TruthyText(anItem, "SeriesId") THEN anItem.SeriesId ELSE PropText(anItem, "Id")

\* a builder that marks the no-source descriptor as directly playable
BuildStreamFallbackWebReady(sourceId, anItem, mediaSource) ==
    LET subtitles == ExtractSubtitles(IF IsNull(mediaSource) THEN <<>>
                                      ELSE <<mediaSource>>)
        hints == [notWebReady |-> ~IsNull(mediaSource),
                  bingeGroup  |-> "jellyfin-" \o GroupOf(anItem)]
        base  == [url   |-> StreamUrl(sourceId),
                  title |-> TitleOf(QualityLabel(anItem, mediaSource)),
                  name  |-> ServerName,
                  behaviorHints |-> hints]
    IN  IF subtitles.threw THEN [threw |-> TRUE]
        ELSE [threw |-> FALSE,
              value |-> IF Len(subtitles.value) > 0
                        THEN base @@ [subtitles |-> subtitles.value]
                        ELSE base]

\* buildStream, lines 368-397
BuildStream(sourceId, anItem, mediaSource) ==
    LET subtitles == ExtractSubtitles(IF IsNull(mediaSource) THEN <<>>
                                      ELSE <<mediaSource>>)
        hints == [notWebReady |-> TRUE,
                  bingeGroup  |-> "jellyfin-" \o GroupOf(anItem)]
        base  == [url   |-> StreamUrl(sourceId),
                  title |-> TitleOf(QualityLabel(anItem, mediaSource)),
                  name  |-> ServerName,
                  behaviorHints |-> hints]
    IN  IF subtitles.threw THEN [threw |-> TRUE]
        ELSE [threw |-> FALSE,
              value |-> IF Len(subtitles.value) > 0
                        THEN base @@ [subtitles |-> subtitles.value]
                        ELSE base]

----------------------------------------------------------------------------
(* createAddon.stream from the resolved item on *)

Unassigned == [Unassigned |-> TRUE]
Pending    == [Pending |-> TRUE]

\* a handle that is always the item's id
SourceHandleItemOnly(source, target) == PropText(target, "Id")

\* source.Id || targetItem.Id, rendered
SourceHandle(source, target) ==
    IF TruthyText(source, "Id") THEN source.Id ELSE PropText(target, "Id")

\* the for loop of lines 271-274 from source i on; threw: an exception left it
RECURSIVE BuildFrom(_, _, _)
BuildFrom(sources, target, i) ==
    IF i > Len(sources) THEN [threw |-> FALSE, value |-> <<>>]
    ELSE IF IsNull(sources[i]) THEN [threw |-> TRUE]    \* source.Id of null
    ELSE LET s    == BuildStream(SourceHandle(sources[i], target), target, sources[i])
             rest == BuildFrom(sources, target, i + 1)
         IN  IF s.threw \/ rest.threw THEN [threw |-> TRUE]
             ELSE [threw |-> FALSE, value |-> <<s.value>> \o rest.value]

\* lines 264-282: the object stream() returns for a resolved playable item;
\* the catch of line 279 turns any exception of the loop into { streams: [] }
Assemble(target) ==
    LET mediaSources == IF Has(target, "MediaSources") THEN target.MediaSources
                        ELSE <<>>
        one == BuildStream(PropText(target, "Id"), target, NullValue)
        all == BuildFrom(mediaSources, target, 1)
    IN  IF Len(mediaSources) = 0
        THEN (IF one.threw THEN [streams |-> <<>>] ELSE [streams |-> <<one.value>>])
        ELSE (IF all.threw THEN [streams |-> <<>>] ELSE [streams |-> all.value])

\* Array.prototype.find, given the indexes whose elements pass the test: the
\* first of them, 0 when there is none, -1 when a null element is read first
\* (the callback throws on it)
FirstMatch(list, hits) ==
    LET first == IF hits = {} THEN Len(list) + 1
                 ELSE CHOOSE i \in hits : \A j \in hits : i <= j
    IN  IF \E i \in DOMAIN list : i < first /\ IsNull(list[i]) THEN -1
        ELSE IF hits = {} THEN 0
        ELSE first

\* the locals of one stream() call
Locals ==
    [pc |-> pc, type |-> type, season |-> season, episode |-> episode,
     request |-> request, items |-> items, item |-> item,
     targetItem |-> targetItem, result |-> result]

Return(f, streams) == [f EXCEPT !.pc = "done", !.result = [streams |-> streams]]

\* lines 264-278 for the playable item
Finish(f, target) ==
    [f EXCEPT !.pc = "done", !.targetItem = target, !.result = Assemble(target)]

\* a handler that takes the last verified candidate instead of the first
ProceedLast(f, list) ==
    IF Len(list) = 0 THEN Return([f EXCEPT !.items = list], <<>>)
    ELSE LET first == list[Len(list)]
             g     == [f EXCEPT !.items = list, !.item = first]
         IN  IF IsNull(first) THEN [g EXCEPT !.pc = "raised"]
             ELSE IF f.type = "series" /\ (f.season = None \/ f.episode = None)
                  THEN Return(g, <<>>)
             ELSE IF f.type = "series"
                     /\ ~(Has(first, "Type") /\ first.Type = "Episode")
                  THEN [g EXCEPT !.pc = "episodes",
                                 !.request = EpisodesRequest(PropText(first, "Id"),
                                                 f.season[1], f.episode[1])]
             ELSE Finish(g, first)

\* lines 239-262: stream() once resolveStremioId has returned its list
Proceed(f, list) ==
    IF Len(list) = 0 THEN Return([f EXCEPT !.items = list], <<>>)
    ELSE LET first == list[1]
             g     == [f EXCEPT !.items = list, !.item = first]
         IN  IF IsNull(first) THEN [g EXCEPT !.pc = "raised"]   \* line 245: item.Id
             ELSE IF f.type = "series" /\ (f.season = None \/ f.episode = None)
                  THEN Return(g, <<>>)
             ELSE IF f.type = "series"
                     /\ ~(Has(first, "Type") /\ first.Type = "Episode")
                  THEN [g EXCEPT !.pc = "episodes",
                                 !.request = EpisodesRequest(PropText(first, "Id"),
                                                 f.season[1], f.episode[1])]
             ELSE Finish(g, first)

\* findByProviderId's response handling followed by stream()'s continuation
AfterSearch(f, resp) == Proceed(f, FindByProviderId(f.request, resp))

\* the native lookup's response handling followed by stream()'s continuation
AfterLookup(f, resp) == Proceed(f, LookupItem(resp))

\* a fallback that issues the unfiltered query again when it finds no match
AfterFallbackRetry(f, resp) ==
    IF resp.status = "error" \/ IsNull(resp.data) THEN Return(f, <<>>)
    ELSE LET episodes == ItemsOf(resp.data)
             at == FirstMatch(episodes, {i \in DOMAIN episodes :
                       /\ ~IsNull(episodes[i])
                       /\ Has(episodes[i], "ParentIndexNumber")
                       /\ episodes[i].ParentIndexNumber = f.request.season
                       /\ Has(episodes[i], "IndexNumber")
                       /\ episodes[i].IndexNumber = f.request.episode})
         IN  IF at = -1 THEN Return(f, <<>>)
             ELSE IF at = 0 THEN [f EXCEPT !.pc = "fallback"]
             ELSE Finish(f, episodes[at])

\* getEpisodeFallback from its response on, lines 133-144, then lines 255-278
AfterFallback(f, resp) ==
    IF resp.status = "error" \/ IsNull(resp.data) THEN Return(f, <<>>)
    ELSE LET episodes == ItemsOf(resp.data)
             at == FirstMatch(episodes, {i \in DOMAIN episodes :
                       /\ ~IsNull(episodes[i])
                       /\ Has(episodes[i], "ParentIndexNumber")
                       /\ episodes[i].ParentIndexNumber = f.request.season
                       /\ Has(episodes[i], "IndexNumber")
                       /\ episodes[i].IndexNumber = f.request.episode})
         IN  IF at <= 0 THEN Return(f, <<>>)
             ELSE Finish(f, episodes[at])

\* a locator that gives up when the season-filtered list has no match
AfterEpisodesNoFallback(f, resp) ==
    IF resp.status = "error" \/ IsNull(resp.data) THEN Return(f, <<>>)
    ELSE LET episodes == ItemsOf(resp.data)
             at == FirstMatch(episodes, {i \in DOMAIN episodes :
                       /\ ~IsNull(episodes[i])
                       /\ Has(episodes[i], "IndexNumber")
                       /\ episodes[i].IndexNumber = f.request.episode})
         IN  IF at <= 0 THEN Return(f, <<>>)
             ELSE Finish(f, episodes[at])

\* getEpisode from its response on, lines 106-123, then lines 255-278
AfterEpisodes(f, resp) ==
    IF resp.status = "error" \/ IsNull(resp.data) THEN Return(f, <<>>)  \* catch: null
    ELSE LET episodes == ItemsOf(resp.data)
             at == FirstMatch(episodes, {i \in DOMAIN episodes :
                       /\ ~IsNull(episodes[i])
                       /\ Has(episodes[i], "IndexNumber")
                       /\ episodes[i].IndexNumber = f.request.episode})
         IN  IF at = -1 THEN Return(f, <<>>)
             ELSE IF at = 0
                  THEN [f EXCEPT !.pc = "fallback",
                                 !.request = AllEpisodesRequest(f.request.seriesId,
                                                 f.request.season, f.request.episode)]
             ELSE Finish(f, episodes[at])

----------------------------------------------------------------------------
(* createAddon.stream as one of several calls the process serves *)

\* the locals of a call that has not started: let stremioId = id, season = null, ...
NewFrame ==
    [pc |-> "idle", type |-> "", season |-> None, episode |-> None,
     request |-> NoRequest, items |-> <<>>, item |-> Unassigned,
     targetItem |-> Unassigned, result |-> Pending]

\* a handler that answers with no streams once the metadata cache holds an entry
BeginCached(t, i) ==
    LET parsed == ParseId(t, i)
        req    == ResolveRequest(parsed.stremioId, t)
        f      == [NewFrame EXCEPT !.type = t, !.season = parsed.season,
                                   !.episode = parsed.episode, !.request = req]
    IN  IF DOMAIN metaCache # {} THEN Return(f, <<>>)
        ELSE IF req.call = "Items" THEN [f EXCEPT !.pc = "search"]
        ELSE IF req.call = "Item" THEN [f EXCEPT !.pc = "lookup"]
        ELSE Proceed(f, <<>>)

\* lines 218-238 and resolveStremioId up to its first await: the locals of a
\* call of stream({type: t, id: i}) when it first suspends (or returns)
Begin(t, i) ==
    LET parsed == ParseId(t, i)
        req    == ResolveRequest(parsed.stremioId, t)
        f      == [NewFrame EXCEPT !.type = t, !.season = parsed.season,
                                   !.episode = parsed.episode, !.request = req]
    IN  IF req.call = "Items" THEN [f EXCEPT !.pc = "search"]
        ELSE IF req.call = "Item" THEN [f EXCEPT !.pc = "lookup"]
        ELSE Proceed(f, <<>>)

\* the continuation of the await the call is suspended at, given the response
Resume(f, resp) ==
    IF f.pc = "search" THEN AfterSearch(f, resp)
    ELSE IF f.pc = "lookup" THEN AfterLookup(f, resp)
    ELSE IF f.pc = "episodes" THEN AfterEpisodes(f, resp)
    ELSE IF f.pc = "fallback" THEN AfterFallback(f, resp)
    ELSE f

\* what a call hands to its caller: the returned object, or the exception
Outcome(f) == IF f.pc = "raised" THEN [raised |-> TRUE] ELSE f.result

\* locals kept in one place for every call: the first slot's
FrameOfShared(p) == frames[1].f

\* the locals the continuation of call p resumes with: those of its own
\* invocation of stream() (let and const inside the function body)
FrameOf(p) == frames[p].f

----------------------------------------------------------------------------
(* Bounds *)

MaxItems    == 2    \* longest Items list of a provider-id search response
MaxEpisodes == 2    \* longest Items list of an episode query response
MaxSources  == 3    \* longest MediaSources list handed to the assembler
MaxStreams  == 2    \* longest MediaStreams list of one media source
MaxBaseSegs == 2    \* most colon-separated segments of a base identifier
MaxCalls    == 2    \* most stream() calls in flight at once
MaxServed   == 3    \* most stream() calls the process serves in one run

\* the sequences over S of length at most n
SeqsUpTo(S, n) == UNION {[1..k -> S] : k \in 0..n}

----------------------------------------------------------------------------
(* The upstream catalogue the responses are drawn from *)

Tt1 == <<"t","t","1">>
Tt2 == <<"t","t","2">>

\* provider-id maps: the requested values under the canonical keys, the same
\* values under other capitalisations, and other values
ProvidersExact == (PImdb :> Tt1) @@ (PTmdb :> <<"7">>)
                  @@ (PTvdb :> <<"7">>) @@ (PAniDb :> <<"7">>)
ProvidersCase  == (<<"i","m","d","b">> :> <<"T","T","1">>)
                  @@ (<<"T","M","D","B">> :> <<"7">>)
                  @@ (<<"t","v","d","b">> :> <<"7">>)
                  @@ (<<"A","N","I","D","B">> :> <<"7">>)
ProvidersOther == (PImdb :> Tt2) @@ (PTmdb :> <<"8">>)
                  @@ (PTvdb :> <<"7","7">>) @@ (PAniDb :> <<"1">>)

Video(h)     == [Type |-> "Video", Index |-> 0, Height |-> h]
VideoNoHeight == [Type |-> "Video", Index |-> 0]
Audio        == [Type |-> "Audio", Index |-> 1, Language |-> "eng"]
SubExternal  == [Type |-> "Subtitle", Index |-> 2, Language |-> "por",
                 DisplayTitle |-> "Portuguese", IsExternal |-> TRUE]
SubEmbedded  == [Type |-> "Subtitle", Index |-> 3, Language |-> "eng",
                 IsExternal |-> FALSE]
SubBare      == [Type |-> "Subtitle", Index |-> 4]

Src4K      == [Id |-> "src-4k", MediaStreams |-> <<Video(2160), Audio>>]
Src1080    == [Id |-> "src-1080", MediaStreams |-> <<Audio, Video(1080), SubExternal>>]
SrcNoId    == [MediaStreams |-> <<Video(480)>>]
SrcNamed   == [Id |-> "src-cut", Name |-> "Director's Cut",
               MediaStreams |-> <<Audio>>]
SrcBare    == [Id |-> "src-bare"]
SrcBroken  == [Id |-> "src-bad", MediaStreams |-> <<Video(720), NullValue>>]
SrcSubs    == [Id |-> "src-subs",
               MediaStreams |-> <<SubEmbedded, SubBare, Video(720), SubExternal>>]

EmptyObject == [x \in {} |-> TRUE]

MovieExact  == [Id |-> "m1", Name |-> "Movie One", Type |-> "Movie",
                ProviderIds |-> ProvidersExact,
                MediaSources |-> <<Src4K, Src1080>>]
SeriesExact == [Id |-> "s1", Name |-> "Series One", Type |-> "Series",
                ProviderIds |-> ProvidersExact]
SeriesCase  == [Id |-> "s2", Name |-> "Series Two", Type |-> "Series",
                ProviderIds |-> ProvidersCase]
SeriesOther == [Id |-> "s3", Name |-> "Series Three", Type |-> "Series",
                ProviderIds |-> ProvidersOther]
MovieBare   == [Id |-> "m4", Name |-> "Movie Four", Type |-> "Movie"]
EpisodeExact == [Id |-> "e34", Name |-> "Pilot", Type |-> "Episode",
                 SeriesId |-> "s1", ParentIndexNumber |-> 3, IndexNumber |-> 4,
                 ProviderIds |-> ProvidersExact,
                 MediaSources |-> <<SrcNoId>>]

Candidates == {MovieExact, SeriesExact, SeriesCase, SeriesOther, MovieBare,
               EpisodeExact}

Episode11 == [Id |-> "e11", Name |-> "One", Type |-> "Episode", SeriesId |-> "s1",
              ParentIndexNumber |-> 1, IndexNumber |-> 1,
              MediaSources |-> <<Src4K, Src1080>>]
Episode12 == [Id |-> "e12", Name |-> "Two", Type |-> "Episode", SeriesId |-> "s1",
              ParentIndexNumber |-> 1, IndexNumber |-> 2,
              MediaSources |-> <<Src4K, SrcBroken, Src1080>>]
Episode21 == [Id |-> "e21", Name |-> "Three", Type |-> "Episode", SeriesId |-> "s1",
              ParentIndexNumber |-> 2, IndexNumber |-> 1,
              MediaSources |-> <<SrcNoId>>]
EpisodeBare == [Id |-> "e00", Name |-> "Special", Type |-> "Episode"]

Episodes == {Episode11, Episode12, Episode21, EpisodeBare}

\* bodies every list endpoint can answer with besides a list
OddBodies == {NullValue, EmptyObject}

SearchResponses ==
    {Failed} \cup {Ok(b) : b \in OddBodies}
    \cup {Ok([Items |-> l]) : l \in SeqsUpTo(Candidates, MaxItems)}

LookupResponses ==
    {Failed} \cup {Ok(b) : b \in OddBodies} \cup {Ok(c) : c \in Candidates}

EpisodeResponses ==
    {Failed} \cup {Ok(b) : b \in OddBodies}
    \cup {Ok([Items |-> l]) : l \in SeqsUpTo(Episodes, MaxEpisodes)}

----------------------------------------------------------------------------
(* The requests of the addon-protocol client *)

Types == {"movie", "series"}

\* id as the caller composes it: the base, then the tail segments, colon-joined
IdOf(g) == Join(<<g.base>> \o g.tail, ":")

Bases ==
    { Tt1,
      <<"t","m","d","b",":","7">>,
      <<"t","v","d","b",":","7">>,
      <<"j","e","l","l","y","f","i","n",":","s","1">>,
      <<"k","i","t","s","u",":","7">> }

Tails ==
    { <<>>, << <<"1">> >>,
      << <<"1">>, <<"1">> >>, << <<"1">>, <<"2">> >>,
      << <<"1","x">>, <<"2">> >>, << <<"x">>, <<"1">> >> }

Givens == [base : Bases, tail : Tails]

----------------------------------------------------------------------------
(* The process serving several calls: slots, requests and catalogues *)

Slots == 1..MaxCalls

FreeSlot == [busy |-> FALSE, input |-> Unassigned, f |-> NewFrame]

CallInputs ==
    { [type |-> "movie",  id |-> Tt1],
      [type |-> "series", id |-> Join(<<Tt1, <<"1">>, <<"1">> >>, ":")],
      [type |-> "series",
       id |-> Join(<<PrefixJellyfin \o <<"s","1">>, <<"1">>, <<"2">> >>, ":")] }

\* the text of a sequence of characters
RECURSIVE Text(_)
Text(chars) == IF Len(chars) = 0 THEN "" ELSE Head(chars) \o Text(Tail(chars))

\* an upstream catalogue: its items, its episodes, the endpoints that are
\* down, and whether its season filter works
Catalogues ==
    { [items    |-> <<SeriesExact, MovieExact>>,
       episodes |-> <<Episode11, Episode12, Episode21>>,
       down     |-> {},
       filters  |-> TRUE],
      [items    |-> <<MovieExact, SeriesCase>>,
       episodes |-> <<Episode21>>,
       down     |-> {"Episodes"},
       filters  |-> TRUE],
      [items    |-> <<SeriesExact, MovieExact>>,
       episodes |-> <<Episode21, Episode11, Episode12>>,
       down     |-> {},
       filters  |-> FALSE] }

\* what the catalogue answers to a request, the same at every time
Upstream(cat, req) ==
    IF req.call \in cat.down THEN Failed
    ELSE IF req.call = "Items"
    THEN Ok([Items |-> SelectSeq(cat.items, LAMBDA c :
                /\ Has(c, "ProviderIds")
                /\ \E k \in DOMAIN c.ProviderIds :
                      /\ ToLowerCase(k) = ToLowerCase(req.providerId)
                      /\ ToLowerCase(c.ProviderIds[k]) = ToLowerCase(req.providerValue)
                /\ c.Type = req.IncludeItemTypes)])
    ELSE IF req.call = "Item"
    THEN LET hits == SelectSeq(cat.items, LAMBDA c : c.Id = Text(req.jellyfinId))
         IN  IF Len(hits) = 0 THEN Failed ELSE Ok(hits[1])
    ELSE IF req.call = "Episodes"
    THEN Ok([Items |-> SelectSeq(cat.episodes, LAMBDA e :
                /\ e.SeriesId = req.seriesId
                /\ cat.filters => e.ParentIndexNumber = req.SeasonNumber)])
    ELSE Ok([Items |-> SelectSeq(cat.episodes, LAMBDA e : e.SeriesId = req.seriesId)])

\* the TMDb ids the catalogue pages and the meta pages ask metadata for
MetaId    == "7"
CatalogIds == {"7", "8"}

\* fetchTmdbMeta's result for a TMDb id
TmdbMeta(tmdbId) == [name |-> "Title " \o tmdbId]

----------------------------------------------------------------------------
(* The stream() call, one action per await point *)

\* no call has been made yet
Idle ==
    /\ pc = "idle"
    /\ type = "" /\ id = <<>> /\ given = Unassigned
    /\ stremioId = <<>> /\ season = None /\ episode = None
    /\ request = NoRequest /\ calls = <<>> /\ response = Pending
    /\ items = <<>> /\ item = Unassigned /\ targetItem = Unassigned
    /\ result = Pending
    /\ built = Pending
    /\ frames = [p \in Slots |-> FreeSlot]
    /\ metaCache = EmptyObject
    /\ answers = [input \in CallInputs |-> <<>>]

Init == Idle /\ catalogue = Unassigned

\* the locals after a step, and the log of the requests issued
Assign(f) ==
    /\ pc' = f.pc
    /\ request' = f.request
    /\ items' = f.items
    /\ item' = f.item
    /\ targetItem' = f.targetItem
    /\ result' = f.result
    /\ calls' = IF f.pc \in {"search", "lookup", "episodes", "fallback"}
                THEN Append(calls, f.request) ELSE calls

\* lines 218-238 and resolveStremioId up to its first await
Enter(t, g) ==
    LET parsed == ParseId(t, IdOf(g))
        req    == ResolveRequest(parsed.stremioId, t)
        f      == [Locals EXCEPT !.type = t, !.season = parsed.season,
                                 !.episode = parsed.episode, !.request = req]
    IN  /\ type' = t
        /\ id' = IdOf(g)
        /\ given' = g
        /\ stremioId' = parsed.stremioId
        /\ season' = parsed.season
        /\ episode' = parsed.episode
        /\ Assign(IF req.call = "Items" THEN [f EXCEPT !.pc = "search"]
                  ELSE IF req.call = "Item" THEN [f EXCEPT !.pc = "lookup"]
                  ELSE Proceed(f, <<>>))
        /\ UNCHANGED <<response, built, served>>

StreamCall ==
    /\ pc = "idle"
    /\ \E t \in Types, g \in Givens : Enter(t, g)

Respond(resp, f) ==
    /\ response' = [to |-> request] @@ resp     \* the response and what it answers
    /\ Assign(f)
    /\ UNCHANGED <<type, id, given, stremioId, season, episode, built, served>>

SearchResponse ==
    /\ pc = "search"
    /\ \E resp \in SearchResponses : Respond(resp, AfterSearch(Locals, resp))

LookupResponse ==
    /\ pc = "lookup"
    /\ \E resp \in LookupResponses : Respond(resp, AfterLookup(Locals, resp))

EpisodesResponse ==
    /\ pc = "episodes"
    /\ \E resp \in EpisodeResponses : Respond(resp, AfterEpisodes(Locals, resp))

FallbackResponse ==
    /\ pc = "fallback"
    /\ \E resp \in EpisodeResponses : Respond(resp, AfterFallback(Locals, resp))

Next ==
    \/ StreamCall
    \/ SearchResponse
    \/ LookupResponse
    \/ EpisodesResponse
    \/ FallbackResponse

Spec == Init /\ [][Next]_vars

----------------------------------------------------------------------------
(* The entry of stream() alone, over a wide set of identifiers: the parse *)
(* of lines 219-234 and the classification of resolveStremioId            *)

BaseSegs ==
    { Tt1, <<"T","T","1">>,
      <<"t","m","d","b">>, <<"t","v","d","b">>, <<"a","n","i","d","b">>,
      <<"j","e","l","l","y","f","i","n">>, <<"7">> }

TailSegs ==
    { <<"0">>, <<"1">>, <<"2">>, <<"0","7">>,
      <<"1","x">>, <<"-","1">>, <<"x">>, <<>>, <<" ","3">>, <<"0","x","1","f">> }

EntryGivens ==
    [base : {Join(segs, ":") : segs \in SeqsUpTo(BaseSegs, MaxBaseSegs) \ {<<>>}},
     tail : SeqsUpTo(TailSegs, 2)]

EntryCall ==
    /\ pc = "idle"
    /\ \E t \in Types, g \in EntryGivens : Enter(t, g)

SpecEntry == Init /\ [][EntryCall]_vars

----------------------------------------------------------------------------
(* The assembler alone (lines 264-282), over a wide set of source lists *)

OwnerMovie   == [Id |-> "m1", Name |-> "Movie One", Type |-> "Movie"]
OwnerEpisode == [Id |-> "e11", Name |-> "One", Type |-> "Episode",
                 SeriesId |-> "s1", ParentIndexNumber |-> 1, IndexNumber |-> 1]

Owners == {OwnerMovie, OwnerEpisode}

AssembleSources == {Src4K, Src1080, SrcNoId, SrcNamed, SrcBare, SrcBroken, SrcSubs}

Playables ==
    Owners
    \cup {o @@ [MediaSources |-> l] :
            o \in Owners, l \in SeqsUpTo(AssembleSources, MaxSources)}

AssembleCall ==
    /\ pc = "idle"
    /\ \E target \in Playables :
          /\ targetItem' = target
          /\ result' = Assemble(target)
    /\ pc' = "done"
    /\ UNCHANGED <<type, id, given, stremioId, season, episode, request, calls,
                   response, items, item, built, served>>

SpecAssemble == Init /\ [][AssembleCall]_vars

----------------------------------------------------------------------------
(* buildStream alone, over a wide set of media sources *)

Heights == {0, 1, 480, 719, 720, 1079, 1080, 2159, 2160, 4320}

StreamKinds ==
    {Video(h) : h \in Heights}
    \cup {VideoNoHeight, Audio, SubExternal, SubEmbedded, SubBare, NullValue}

SourceIds   == {EmptyObject, [Id |-> "src-1"]}
SourceNames == {EmptyObject, [Name |-> "Movie One"], [Name |-> "Director's Cut"]}

BuildSources ==
    {i @@ n : i \in SourceIds, n \in SourceNames}
    \cup {i @@ n @@ [MediaStreams |-> l] :
            i \in SourceIds, n \in SourceNames,
            l \in SeqsUpTo(StreamKinds, MaxStreams)}

\* one iteration of the loop of lines 271-274, or the call of line 269
BuildCall ==
    /\ pc = "idle"
    /\ \E owner \in Owners, source \in BuildSources \cup {NullValue} :
          built' = [item        |-> owner,
                    mediaSource |-> source,
                    out |-> IF IsNull(source)
                            THEN BuildStream(PropText(owner, "Id"), owner, source)
                            ELSE BuildStream(SourceHandle(source, owner), owner, source)]
    /\ pc' = "done"
    /\ UNCHANGED <<type, id, given, stremioId, season, episode, request, calls,
                   response, items, item, targetItem, result, served>>

SpecBuild == Init /\ [][BuildCall]_vars

----------------------------------------------------------------------------
(* The process serving stream, catalog and meta calls, interleaved at their *)
(* await points, against one unchanged catalogue                            *)

Awaiting == {"search", "lookup", "episodes", "fallback"}

\* the sum of the values of a function with a finite domain
RECURSIVE Sum(_)
Sum(f) ==
    IF DOMAIN f = {} THEN 0
    ELSE LET x == CHOOSE x \in DOMAIN f : TRUE
         IN  f[x] + Sum([y \in DOMAIN f \ {x} |-> f[y]])

\* the stream() calls made so far: those answered and those in flight
Served ==
    Sum([input \in CallInputs |-> Len(answers[input])])
    + Cardinality({q \in Slots : frames[q].busy})

\* the route handler calls addon.stream({type, id}): the call runs to its
\* first await
CallStream(p) ==
    /\ ~frames[p].busy
    /\ \E input \in CallInputs :
          /\ Served < MaxServed
          /\ frames' = [frames EXCEPT ![p] = [busy  |-> TRUE,
                                              input |-> input,
                                              f     |-> Begin(input.type, input.id)]]
    /\ UNCHANGED <<single, catalogue, metaCache, answers>>

\* the awaited upstream response arrives and the call runs to its next await
AwaitStream(p) ==
    /\ frames[p].busy
    /\ FrameOf(p).pc \in Awaiting
    /\ frames' = [frames EXCEPT
                    ![p].f = Resume(FrameOf(p), Upstream(catalogue, FrameOf(p).request))]
    /\ UNCHANGED <<single, catalogue, metaCache, answers>>

\* the call hands its result to the route handler
ReturnStream(p) ==
    /\ frames[p].busy
    /\ FrameOf(p).pc \in {"done", "raised"}
    /\ answers' = [answers EXCEPT ![frames[p].input] = Append(@, Outcome(FrameOf(p)))]
    /\ frames' = [frames EXCEPT ![p] = FreeSlot]
    /\ UNCHANGED <<single, catalogue, metaCache>>

\* metaCache.set(cacheKey, result) for the keys not yet cached
CacheSet(keys, t) ==
    LET missing == {k \in keys : (t \o ":" \o k) \notin DOMAIN metaCache}
        fresh   == [key \in {t \o ":" \o k : k \in missing} |->
                       TmdbMeta(CHOOSE k \in missing : key = t \o ":" \o k)]
    IN  /\ missing # {}
        /\ metaCache' = metaCache @@ fresh

\* meta({type, id}): buildMeta of the item asks fetchTmdbMeta, which fills the cache
CallMeta(t) ==
    /\ CacheSet({MetaId}, t)
    /\ UNCHANGED <<single, frames, catalogue, answers>>

\* catalog({type, ...}): buildMeta of every item of the page fills the cache
CallCatalog(t) ==
    /\ CacheSet(CatalogIds, t)
    /\ UNCHANGED <<single, frames, catalogue, answers>>

InitCalls == Idle /\ catalogue \in Catalogues

NextCalls ==
    \/ \E p \in Slots : CallStream(p)
    \/ \E p \in Slots : AwaitStream(p)
    \/ \E p \in Slots : ReturnStream(p)
    \/ \E t \in Types : CallMeta(t)
    \/ \E t \in Types : CallCatalog(t)

SpecCalls == InitCalls /\ [][NextCalls]_vars

----------------------------------------------------------------------------
(* The catalog entry of an item and the resolution of its external id: *)
(* getStremioIdFromItem followed by resolveStremioId                   *)

\* the characters of the item ids of the shelf
IdTexts ==
    { <<"m","1">>, <<"s","1">>, <<"s","2">>, <<"s","3">>, <<"m","4">>,
      <<"m","5">>, <<"s","6">>, <<"m","7">> }

Chars(text) == CHOOSE chars \in IdTexts : Text(chars) = text

MovieTmdb  == [Id |-> "m5", Name |-> "Movie Five", Type |-> "Movie",
               ProviderIds |-> (PTmdb :> <<"7">>)]
SeriesTvdb == [Id |-> "s6", Name |-> "Series Six", Type |-> "Series",
               ProviderIds |-> (PTvdb :> <<"7">>)]
MovieUpper == [Id |-> "m7", Name |-> "Movie Seven", Type |-> "Movie",
               ProviderIds |-> (PImdb :> <<"T","T","1">>)]

\* the movies and series a library can hold
Shelf == {MovieExact, SeriesExact, SeriesCase, SeriesOther, MovieBare,
          MovieTmdb, SeriesTvdb, MovieUpper}

\* the libraries: some items of the shelf in upstream order, each once
Libraries ==
    {l \in SeqsUpTo(Shelf, MaxItems) :
        Len(l) > 0 /\ \A i, j \in DOMAIN l : l[i] = l[j] => i = j}

\* providers.<key> as a condition and as a value: present under exactly that
\* key and not the empty string
Provider(anItem, key) ==
    IF Has(anItem, "ProviderIds") /\ key \in DOMAIN anItem.ProviderIds
    THEN anItem.ProviderIds[key] ELSE <<>>

\* getStremioIdFromItem, lines 409-415
GetStremioIdFromItem(anItem) ==
    IF Provider(anItem, PImdb) # <<>> THEN Provider(anItem, PImdb)
    ELSE IF Provider(anItem, PTmdb) # <<>> THEN PrefixTmdb \o Provider(anItem, PTmdb)
    ELSE IF Provider(anItem, PTvdb) # <<>> THEN PrefixTvdb \o Provider(anItem, PTvdb)
    ELSE PrefixJellyfin \o Chars(anItem.Id)

\* the request type under which the catalog lists an item
TypeOf(anItem) == IF anItem.Type = "Movie" THEN "movie" ELSE "series"

\* catalog() lists an item of the library under its computed id, and the
\* client asks to resolve that id: resolveStremioId up to its await
CatalogEntry ==
    /\ pc = "idle"
    /\ \E library \in Libraries, k \in 1..MaxItems :
          /\ k \in DOMAIN library
          /\ LET entry == library[k]
                 sid   == GetStremioIdFromItem(entry)
                 req   == ResolveRequest(sid, TypeOf(entry))
             IN  /\ catalogue' = [items |-> library, episodes |-> <<>>,
                                  down |-> {}, filters |-> TRUE]
                 /\ item' = entry
                 /\ type' = TypeOf(entry)
                 /\ id' = sid
                 /\ stremioId' = sid
                 /\ request' = req
                 /\ calls' = IF req = NoRequest THEN calls ELSE Append(calls, req)
                 /\ pc' = IF req.call = "Items" THEN "search"
                          ELSE IF req.call = "Item" THEN "lookup"
                          ELSE "resolved"
    /\ UNCHANGED <<given, season, episode, response, items, targetItem, result,
                   built, frames, metaCache, answers>>

\* the library answers and resolveStremioId returns its list
ResolveResponse ==
    /\ pc \in {"search", "lookup"}
    /\ LET resp == Upstream(catalogue, request)
       IN  /\ response' = [to |-> request] @@ resp
           /\ items' = IF pc = "search" THEN FindByProviderId(request, resp)
                       ELSE LookupItem(resp)
    /\ pc' = "resolved"
    /\ UNCHANGED <<type, id, given, stremioId, season, episode, request, calls,
                   item, targetItem, result, built, served>>

NextRoundTrip == CatalogEntry \/ ResolveResponse

SpecRoundTrip == Init /\ [][NextRoundTrip]_vars

----------------------------------------------------------------------------
(* Vocabulary of the properties *)

Digits == {"0","1","2","3","4","5","6","7","8","9"}

\* seg is a numeral of a non-negative integer: decimal digits, at least one
IsNumeral(seg) == Len(seg) > 0 /\ \A i \in DOMAIN seg : seg[i] \in Digits

\* seg is an integer literal: a numeral, possibly signed
IsIntegerLiteral(seg) ==
    \/ IsNumeral(seg)
    \/ Len(seg) > 1 /\ seg[1] \in {"-", "+"} /\ IsNumeral(Tail(seg))

DigitOf(c) == CHOOSE n \in 0..9 : ToString(n) = c

\* the number a numeral denotes
RECURSIVE NumberOf(_)
NumberOf(seg) ==
    IF Len(seg) = 0 THEN 0
    ELSE 10 * NumberOf(SubSeq(seg, 1, Len(seg) - 1)) + DigitOf(seg[Len(seg)])

\* s without its first n characters
DropFirst(s, n) == SubSeq(s, n + 1, Len(s))

Returned == pc = "done"
Streams  == result.streams

\* the last response answered the named call with a body that is an object
Answered(call) ==
    /\ response # Pending
    /\ response.to.call = call
    /\ response.status = "ok"
    /\ ~IsNull(response.data)

\* the list such a body carries
ListAnswered == IF Has(response.data, "Items") THEN response.data.Items ELSE <<>>

\* a candidate carries the provider id: some key of its map equals the scheme
\* and that key's value equals the value, both compared without case
Carries(candidate, scheme, value) ==
    /\ Has(candidate, "ProviderIds")
    /\ \E k \in DOMAIN candidate.ProviderIds :
          /\ ToLowerCase(k) = ToLowerCase(scheme)
          /\ ToLowerCase(candidate.ProviderIds[k]) = ToLowerCase(value)

\* building the descriptor of this source raises: a null entry among its streams
Raises(source) ==
    \/ IsNull(source)
    \/ /\ Has(source, "MediaStreams")
       /\ \E i \in DOMAIN source.MediaStreams : IsNull(source.MediaStreams[i])

SourcesOf(target) ==
    IF Has(target, "MediaSources") THEN target.MediaSources ELSE <<>>

\* the playback handle of a source: its id if it has one, else the item's id
HandleOf(source, target) == IF Has(source, "Id") THEN source.Id ELSE target.Id

----------------------------------------------------------------------------
(* C1 *)

\* C1: whatever kind, identifier and upstream behaviour, stream() completes
\* with { streams: [...] } and never raises; a failed call, a null body or a
\* body with missing fields yields an empty stream list.
C1_NeverRaises ==
    /\ pc # "raised"
    /\ (Returned /\ response # Pending
          /\ (response.status = "error" \/ response.data \in OddBodies))
       => Streams = <<>>

----------------------------------------------------------------------------
(* C2 *)

\* C2: for kind series and an identifier <base>:<S>:<E> with S and E numerals
\* of non-negative integers, the parse yields base identifier <base>, season S
\* and episode E, also when <base> itself contains colons.
C2_ParsesSeasonEpisode ==
    (/\ pc # "idle"
     /\ type = "series"
     /\ Len(given.tail) = 2
     /\ IsNumeral(given.tail[1])
     /\ IsNumeral(given.tail[2]))
    => /\ stremioId = given.base
       /\ season = Some(NumberOf(given.tail[1]))
       /\ episode = Some(NumberOf(given.tail[2]))

\* tmdb:7:1:2 parsed as base tmdb:7, season 1, episode 2
C2_Witness ==
    /\ pc # "idle"
    /\ type = "series"
    /\ id = <<"t","m","d","b",":","7",":","1",":","2">>
    /\ given.base = <<"t","m","d","b",":","7">>
    /\ stremioId = <<"t","m","d","b",":","7">>
    /\ season = Some(1)
    /\ episode = Some(2)

----------------------------------------------------------------------------
(* C3 *)

\* C3: for kind series and an identifier that has fewer than three segments or
\* whose last two segments are not both integers, the parse keeps the whole
\* string as base identifier with season and episode absent, and stream()
\* returns an empty stream list.
C3_MalformedKeepsWholeId ==
    LET parts == Split(id, ":")
        n     == Len(parts)
    IN  (/\ pc # "idle"
         /\ type = "series"
         /\ ~(/\ n >= 3
              /\ IsIntegerLiteral(parts[n - 1])
              /\ IsIntegerLiteral(parts[n])))
        => /\ stremioId = id
           /\ season = None
           /\ episode = None
           /\ Returned => Streams = <<>>

----------------------------------------------------------------------------
(* C4 *)

\* C4: findByProviderId returns exactly the upstream candidates, in upstream
\* order, that carry the requested provider id (key and value compared without
\* case); a candidate with another value or without the key is never returned.
C4_ReturnsExactlyVerified ==
    Answered("Items")
    => items = SelectSeq(ListAnswered,
                  LAMBDA c : Carries(c, response.to.providerId,
                                     response.to.providerValue))

\* upstream returned a candidate with another value ahead of one that differs
\* from the request by case only: the first is dropped, the second kept
C4_Witness ==
    /\ Answered("Items")
    /\ response.to.providerValue = Tt1
    /\ ListAnswered = <<SeriesOther, SeriesCase>>
    /\ items = <<SeriesCase>>

----------------------------------------------------------------------------
(* C5 *)

\* C5: when the season-filtered episode query returns a list with no entry of
\* the requested episode index, the unfiltered query is issued; if that one
\* holds an item with parent-index = season and index = episode, that item
\* becomes the playable item; if it holds none, stream() returns no streams.
C5_LocatorFallsBack ==
    /\ (/\ Answered("Episodes")
        /\ \A i \in DOMAIN ListAnswered :
              ~(Has(ListAnswered[i], "IndexNumber")
                /\ ListAnswered[i].IndexNumber = episode[1]))
       => /\ pc = "fallback"
          /\ request.call = "AllEpisodes"
          /\ request.seriesId = response.to.seriesId
          /\ calls[Len(calls)] = request
    /\ Answered("AllEpisodes")
       => LET matches == {i \in DOMAIN ListAnswered :
                            /\ Has(ListAnswered[i], "ParentIndexNumber")
                            /\ ListAnswered[i].ParentIndexNumber = season[1]
                            /\ Has(ListAnswered[i], "IndexNumber")
                            /\ ListAnswered[i].IndexNumber = episode[1]}
          IN  /\ Returned
              /\ matches # {}
                 => \E i \in matches :
                       /\ \A j \in matches : i <= j
                       /\ targetItem = ListAnswered[i]
              /\ matches = {} => Streams = <<>>

\* the season-filtered query missed episode 1 of season 1 and the unfiltered
\* one held it: its two sources are returned
C5_Witness ==
    /\ Answered("AllEpisodes")
    /\ Len(calls) = 3
    /\ season = Some(1) /\ episode = Some(1)
    /\ targetItem = Episode11
    /\ Returned
    /\ Len(Streams) = 2

----------------------------------------------------------------------------
(* C6 *)

EmptyList == Ok([Items |-> <<>>])

\* C6: at every upstream call site a call that fails or times out leaves the
\* call where the same call returning zero results leaves it; in particular a
\* failed season-filtered query leads to the unfiltered query.
C6_FailureIsZeroResults ==
    /\ pc = "search"   => AfterSearch(Locals, Failed) = AfterSearch(Locals, EmptyList)
    /\ pc = "lookup"   => AfterLookup(Locals, Failed).result = [streams |-> <<>>]
    /\ pc = "episodes" => AfterEpisodes(Locals, Failed) = AfterEpisodes(Locals, EmptyList)
    /\ pc = "fallback" => AfterFallback(Locals, Failed) = AfterFallback(Locals, EmptyList)

----------------------------------------------------------------------------
(* C7 *)

----------------------------------------------------------------------------
(* C8 *)

\* C8: when building the descriptor of one source raises, that source alone is
\* skipped: the descriptors of all other sources, before and after it, are
\* emitted in source order.
C8_SourceFailureIsolated ==
    LET S    == SourcesOf(targetItem)
        good == SelectSeq(S, LAMBDA x : ~Raises(x))
    IN  (Returned /\ targetItem # Unassigned /\ Len(S) > 0)
        => /\ Len(Streams) = Len(good)
           /\ \A i \in DOMAIN good :
                 Streams[i].url = StreamUrl(HandleOf(good[i], targetItem))

----------------------------------------------------------------------------
(* C9 *)

\* buildStream returned a descriptor for a media source
BuiltFromSource ==
    /\ built # Pending
    /\ ~IsNull(built.mediaSource)
    /\ ~built.out.threw

BuiltStreams ==
    IF Has(built.mediaSource, "MediaStreams") THEN built.mediaSource.MediaStreams
    ELSE <<>>

VideoIndexes == {i \in DOMAIN BuiltStreams : BuiltStreams[i].Type = "Video"}

\* the first video stream of the source, when VideoIndexes is not empty
FirstVideo == BuiltStreams[CHOOSE i \in VideoIndexes : \A j \in VideoIndexes : i <= j]

\* the source's human label, when it has one that differs from the item's name
DistinctName ==
    IF Has(built.mediaSource, "Name") /\ built.mediaSource.Name # built.item.Name
    THEN built.mediaSource.Name ELSE ""

Bucket(h) ==
    IF h >= 2160 THEN "4K"
    ELSE IF h >= 1080 THEN "1080p"
    ELSE IF h >= 720 THEN "720p"
    ELSE ToString(h) \o "p"

\* resolution label and human label joined as section 4.3 of the design says
Joined(resolution, label) ==
    IF label = "" THEN resolution
    ELSE IF resolution = "" THEN label
    ELSE resolution \o " - " \o label

Titled(quality) ==
    IF quality = "" THEN TitlePrefix \o ServerName
    ELSE TitlePrefix \o ServerName \o "\n" \o quality

----------------------------------------------------------------------------
(* C10 *)

\* the call issued the provider-id search for scheme and value, and nothing else
Searches(scheme, value) ==
    /\ pc = "search"
    /\ request.call = "Items"
    /\ request.providerId = scheme
    /\ request.providerValue = value
    /\ request.AnyProviderIdEquals = scheme \o <<".">> \o value
    /\ calls = <<request>>

\* C10: the base identifier is classified by the first matching rule: tt... is
\* IMDb with the whole string as value; tmdb:, tvdb:, anidb: are TMDb, TVDb,
\* AniDb with the rest as value; jellyfin: is a direct item lookup by the rest
\* with no provider-id search; anything else yields zero items and an empty
\* stream list, without an error.
C10_ClassifiesByPrefix ==
    pc # "idle"
    => IF StartsWith(stremioId, PrefixTt) THEN Searches(PImdb, stremioId)
       ELSE IF StartsWith(stremioId, PrefixTmdb)
            THEN Searches(PTmdb, DropFirst(stremioId, 5))
       ELSE IF StartsWith(stremioId, PrefixTvdb)
            THEN Searches(PTvdb, DropFirst(stremioId, 5))
       ELSE IF StartsWith(stremioId, PrefixAnidb)
            THEN Searches(PAniDb, DropFirst(stremioId, 6))
       ELSE IF StartsWith(stremioId, PrefixJellyfin)
            THEN /\ pc = "lookup"
                 /\ request = [call |-> "Item",
                               jellyfinId |-> DropFirst(stremioId, 9)]
                 /\ calls = <<request>>
       ELSE /\ Returned
            /\ calls = <<>>
            /\ items = <<>>
            /\ Streams = <<>>

\* tmdb:7:1:2 asked as a series is TMDb with value 7, not the whole base
C10_Witness ==
    /\ pc = "search"
    /\ type = "series"
    /\ id = <<"t","m","d","b",":","7",":","1",":","2">>
    /\ stremioId = <<"t","m","d","b",":","7">>
    /\ request.providerId = PTmdb
    /\ request.providerValue = <<"7">>
    /\ request.IncludeItemTypes = "Series"

----------------------------------------------------------------------------
(* C11 *)

\* the episode queries among the requests issued so far
LocatorCalls ==
    {i \in DOMAIN calls : calls[i].call \in {"Episodes", "AllEpisodes"}}

\* the candidate is an episode-kind item
IsEpisode(candidate) == Has(candidate, "Type") /\ candidate.Type = "Episode"

\* C11: only the first verified candidate is used, also when it yields no
\* episode; a series request with season and episode uses an episode-kind
\* candidate directly and otherwise asks the Episode Locator with the
\* candidate's id and the parsed season and episode, a not-found result giving
\* an empty list; a movie request uses the identifier as it is and never asks
\* the Episode Locator.
C11_FirstCandidateOnly ==
    /\ (pc \notin {"idle", "search", "lookup"} /\ Len(items) > 0)
       => /\ item = items[1]
          /\ \A i \in LocatorCalls :
                /\ type = "series" /\ season # None /\ episode # None
                /\ ~IsEpisode(items[1])
                /\ Has(items[1], "Id") => calls[i].seriesId = items[1].Id
                /\ calls[i].season = season[1]
                /\ calls[i].episode = episode[1]
    /\ (Returned /\ Len(items) > 0 /\ type = "series"
          /\ season # None /\ episode # None /\ IsEpisode(items[1]))
       => /\ LocatorCalls = {}
          /\ targetItem = items[1]
    /\ (Returned /\ Len(items) > 0 /\ type = "series"
          /\ season # None /\ episode # None /\ ~IsEpisode(items[1]))
       => /\ LocatorCalls # {}
          /\ targetItem = Unassigned => Streams = <<>>
    /\ type = "movie"
       => /\ stremioId = id
          /\ LocatorCalls = {}
          /\ (Returned /\ Len(items) > 0) => targetItem = items[1]

\* two verified candidates, the first a series whose episode is found by
\* neither query: the call ends empty without asking about the second
C11_Witness ==
    /\ Returned
    /\ type = "series"
    /\ Len(items) = 2
    /\ items[1] # items[2]
    /\ ~IsEpisode(items[1])
    /\ Len(calls) = 3
    /\ calls[3].seriesId = items[1].Id
    /\ Streams = <<>>

----------------------------------------------------------------------------
(* C12 *)

\* the catalogue kind a request type stands for
KindOf(t) == IF t = "movie" THEN "Movie" ELSE "Series"

\* the candidates the call works on are of the kind the request named
CandidatesOfKind ==
    \A i \in DOMAIN items :
        ~IsNull(items[i]) /\ Has(items[i], "Type") /\ items[i].Type = KindOf(type)

\* C12: every resolution is constrained to the requested kind, whatever the
\* scheme: a provider-id search names the kind, and whenever the upstream
\* honours the constraint it is given, a movie request builds its descriptors
\* from a movie item and a series request never from a movie item.
C12_ConstrainedToKind ==
    /\ (Len(calls) > 0 /\ calls[1].call = "Items")
       => calls[1].IncludeItemTypes = KindOf(type)
    /\ (Returned /\ Streams # <<>> /\ Has(targetItem, "Type")
          /\ (Len(calls) > 0 /\ calls[1].call = "Items" => CandidatesOfKind))
       => /\ type = "movie" => targetItem.Type = "Movie"
          /\ type = "series" => targetItem.Type # "Movie"

----------------------------------------------------------------------------
(* C13 *)

GroupPrefix == "jellyfin-"

\* the grouping key of a descriptor
KeyOf(descriptor) == descriptor.behaviorHints.bingeGroup

\* the series-parent id of an item when it has one, else the item's own id
GroupIdOf(anItem) ==
    IF Has(anItem, "SeriesId") THEN anItem.SeriesId ELSE anItem.Id

\* two items are episodes of the same series
SameSeries(a, b) ==
    /\ Has(a, "SeriesId") /\ Has(b, "SeriesId")
    /\ a.SeriesId = b.SeriesId

\* C13: every descriptor's grouping key is the fixed prefix followed by the
\* item's series-parent id when it has one, else by the item's own id; so all
\* descriptors of one call share one key, and the descriptors of any other
\* episode of the same series carry that key too.
C13_GroupingKey ==
    (Returned /\ Streams # <<>>
       /\ (Has(targetItem, "SeriesId") \/ Has(targetItem, "Id")))
    => /\ \A i \in DOMAIN Streams :
             KeyOf(Streams[i]) = GroupPrefix \o GroupIdOf(targetItem)
       /\ \A i, j \in DOMAIN Streams : KeyOf(Streams[i]) = KeyOf(Streams[j])
       /\ \A other \in Episodes \cup Candidates :
             SameSeries(other, targetItem)
             => \A d \in Range(Assemble(other).streams) :
                   KeyOf(d) = KeyOf(Streams[1])

\* two descriptors of episode S1E1 of series s1, both keyed by the series
C13_Witness ==
    /\ Returned
    /\ targetItem = Episode11
    /\ Len(Streams) = 2
    /\ KeyOf(Streams[1]) = "jellyfin-s1"
    /\ KeyOf(Streams[2]) = "jellyfin-s1"
    /\ \E other \in Episodes : other # targetItem /\ SameSeries(other, targetItem)

----------------------------------------------------------------------------
(* C14 *)

\* the subtitle tracks a descriptor carries
TracksOn(descriptor) ==
    IF Has(descriptor, "subtitles") THEN descriptor.subtitles ELSE <<>>

\* a media stream is an extractable subtitle: type subtitle, external flag
\* not explicitly false
Extractable(s) ==
    /\ Has(s, "Type") /\ s.Type = "Subtitle"
    /\ Has(s, "IsExternal") => s.IsExternal # FALSE

\* language, defaulting to "und"
LanguageOf(s) == IF Has(s, "Language") THEN s.Language ELSE "und"

\* display title, else language, else the placeholder
LabelOf(s) ==
    IF Has(s, "DisplayTitle") THEN s.DisplayTitle
    ELSE IF Has(s, "Language") THEN s.Language
    ELSE "Legenda"

\* tracks are the extractable subtitle streams of source, in order
TracksFrom(tracks, source) ==
    LET streams == IF Has(source, "MediaStreams") THEN source.MediaStreams ELSE <<>>
        wanted  == SelectSeq(streams, Extractable)
    IN  /\ Len(tracks) = Len(wanted)
        /\ \A k \in DOMAIN wanted :
              /\ tracks[k].id = ToString(wanted[k].Index)
              /\ tracks[k].lang = LanguageOf(wanted[k])
              /\ tracks[k].label = LabelOf(wanted[k])

\* C14 as claimed: subtitle tracks come from the first source of the item's
\* source list only (its subtitle streams whose external flag is not
\* explicitly false, language defaulting to "und", label display title, else
\* language, else the placeholder); no descriptor carries tracks taken from a
\* second or later source.
C14_TracksFromFirstSourceOnly ==
    (Returned /\ Streams # <<>> /\ SourcesOf(targetItem) # <<>>)
    => \A i \in DOMAIN Streams :
          \/ TracksOn(Streams[i]) = <<>>
          \/ TracksFrom(TracksOn(Streams[i]), SourcesOf(targetItem)[1])

\* C14 amended: the descriptor of each source carries the subtitle tracks of
\* that same source: its subtitle streams whose external flag is not
\* explicitly false (an absent flag is included), in order, each with
\* language defaulting to "und" and label display title, else language, else
\* the placeholder; the descriptor of an item without sources carries none.
C14_TracksFromOwnSource ==
    (Returned /\ Streams # <<>>)
    => IF SourcesOf(targetItem) = <<>>
       THEN \A i \in DOMAIN Streams : TracksOn(Streams[i]) = <<>>
       ELSE /\ Len(Streams) = Len(SourcesOf(targetItem))
            /\ \A i \in DOMAIN Streams :
                  TracksFrom(TracksOn(Streams[i]), SourcesOf(targetItem)[i])

\* the second source has an embedded, a bare and an external subtitle stream;
\* its descriptor carries the bare and the external one, the first source's
\* descriptor carries none
C14_Witness ==
    /\ Returned
    /\ Len(Streams) >= 2
    /\ SourcesOf(targetItem)[1] = Src4K
    /\ SourcesOf(targetItem)[2] = SrcSubs
    /\ TracksOn(Streams[1]) = <<>>
    /\ Len(TracksOn(Streams[2])) = 2
    /\ TracksOn(Streams[2])[1].lang = "und"
    /\ TracksOn(Streams[2])[1].label = "Legenda"
    /\ TracksOn(Streams[2])[2].label = "Portuguese"

----------------------------------------------------------------------------
(* C17 *)

\* the colon-separated segments of the identifier of the call
Segments == Split(id, ":")

\* the last two segments of the identifier are numerals of non-negative integers
TrailingNumerals ==
    /\ Len(Segments) >= 3
    /\ IsNumeral(Segments[Len(Segments)])
    /\ IsNumeral(Segments[Len(Segments) - 1])

\* C17: whenever the handler has season and episode after the parse, both are
\* non-negative integers; an identifier whose trailing segment is not a
\* non-negative integer (a negative number, digits followed by other
\* characters) gets no season and episode, and its whole string stays the
\* base identifier.
C17_SeasonEpisodeNonNegative ==
    pc # "idle"
    => /\ (season # None \/ episode # None)
          => /\ season # None /\ episode # None
             /\ season[1] >= 0 /\ episode[1] >= 0
       /\ ~TrailingNumerals
          => /\ season = None /\ episode = None
             /\ stremioId = id

----------------------------------------------------------------------------
(* C18 *)

\* C18: every descriptor stream() emits, built from a media source or from
\* the no-source fallback, has behaviorHints.notWebReady set to true.
C18_NotWebReady ==
    Returned
    => \A i \in DOMAIN Streams :
          /\ Has(Streams[i], "behaviorHints")
          /\ Has(Streams[i].behaviorHints, "notWebReady")
          /\ Streams[i].behaviorHints.notWebReady = TRUE

\* the single descriptor of an item without sources carries the flag
C18_Witness ==
    /\ Returned
    /\ SourcesOf(targetItem) = <<>>
    /\ Len(Streams) = 1
    /\ Streams[1].url = StreamUrl(targetItem.Id)
    /\ Streams[1].behaviorHints.notWebReady = TRUE

----------------------------------------------------------------------------
(* C20 *)

\* C20: whenever stream(series, <base>:<S>:<E>) returns a non-empty list, the
\* descriptors are built from an episode item whose season (parent index) is
\* S and whose episode index is E, also when the season-filtered query
\* returns episodes of other seasons and when the first candidate is itself
\* an episode-kind item.
C20_BuiltFromRequestedEpisode ==
    (Returned /\ type = "series" /\ Streams # <<>>)
    => /\ season # None /\ episode # None
       /\ IsEpisode(targetItem)
       /\ Has(targetItem, "ParentIndexNumber")
       /\ targetItem.ParentIndexNumber = season[1]
       /\ Has(targetItem, "IndexNumber")
       /\ targetItem.IndexNumber = episode[1]

----------------------------------------------------------------------------
(* C19 *)

\* the call has ended: it returned or an exception left it
Ended == pc \in {"done", "raised"}

\* an upstream request is issued by this step
Issues == calls' # calls

\* the response delivered by this step answers the awaited request with a
\* list that holds no entry of the requested episode index
MissesEpisode ==
    /\ response'.to = request
    /\ response'.status = "ok"
    /\ ~IsNull(response'.data)
    /\ LET list == ItemsOf(response'.data)
       IN  \A i \in DOMAIN list :
              ~(Has(list[i], "IndexNumber") /\ list[i].IndexNumber = episode[1])

\* one step of a call keeps the order matcher, locator, assembler
InOrder ==
    /\ ~Ended
    /\ Len(calls') <= 3
    /\ calls = SubSeq(calls', 1, Len(calls))
    /\ Len(calls') <= Len(calls) + 1
    /\ (Issues /\ Len(calls') = 1)
       => /\ pc = "idle"
          /\ calls'[1].call \in {"Items", "Item"}
    /\ (Issues /\ Len(calls') = 2)
       => /\ pc \in {"search", "lookup"}
          /\ response'.to = calls[1]
          /\ Len(items') > 0
          /\ calls'[2].call = "Episodes"
    /\ (Issues /\ Len(calls') = 3)
       => /\ pc = "episodes"
          /\ request = calls[2]
          /\ MissesEpisode
          /\ calls'[3].call = "AllEpisodes"
    /\ pc = "fallback" => Ended'
    /\ result' # Pending
       => /\ pc' = "done"
          /\ ~Issues
          /\ result'.streams # <<>>
             => /\ targetItem' # Unassigned
                /\ Len(result'.streams) = IF SourcesOf(targetItem') = <<>> THEN 1
                                          ELSE Len(SourcesOf(targetItem'))
                /\ Len(calls') >= 1
                /\ type' = "series" => (Len(calls') = 1 => IsEpisode(items'[1]))

\* C19: within one call the upstream steps happen strictly in the order
\* matcher, locator, assembler: no episode query before the search or lookup
\* has returned a non-empty candidate list, the unfiltered episode query only
\* after the season-filtered one completed without a match and at most once,
\* no descriptor before the playable item is resolved; a call issues at most
\* three upstream requests and then ends, after which it takes no step.
C19_StepsInOrder == [][InOrder]_vars

\* a call that went through all three requests and returned descriptors
C19_Witness ==
    /\ Returned
    /\ Len(calls) = 3
    /\ calls[1].call = "Items"
    /\ calls[2].call = "Episodes"
    /\ calls[3].call = "AllEpisodes"
    /\ Streams # <<>>

----------------------------------------------------------------------------
(* C15 *)

\* the calls made so far with one request all returned the same
SameAnswers(input) ==
    \A i, j \in DOMAIN answers[input] : answers[input][i] = answers[input][j]

\* C15: two stream() calls with the same kind and identifier against an
\* unchanged catalogue return structurally identical descriptor lists (same
\* length, order and fields), whatever stream, catalog or meta calls ran in
\* between, those filling the metadata cache included.
C15_SameRequestSameAnswer ==
    \A input \in CallInputs : SameAnswers(input)

\* the same request was answered twice with a non-empty list, and the
\* metadata cache was filled before the second answer was computed
C15_Witness ==
    \E input \in CallInputs :
        /\ Len(answers[input]) = 2
        /\ answers[input][1] = answers[input][2]
        /\ Has(answers[input][1], "streams")
        /\ Len(answers[input][1].streams) = 2
        /\ DOMAIN metaCache # {}

----------------------------------------------------------------------------
(* C16 *)

\* the call run alone from the locals f on, against the catalogue
RECURSIVE RunAlone(_, _)
RunAlone(f, cat) ==
    IF f.pc \notin Awaiting THEN f
    ELSE RunAlone(Resume(f, Upstream(cat, f.request)), cat)

\* the locals a call passes through when it runs alone
RECURSIVE StepsAlone(_, _)
StepsAlone(f, cat) ==
    IF f.pc \notin Awaiting THEN {f}
    ELSE {f} \cup StepsAlone(Resume(f, Upstream(cat, f.request)), cat)

\* what stream(input) returns when it runs alone against the catalogue
Alone(input, cat) == Outcome(RunAlone(Begin(input.type, input.id), cat))

\* the answers and the locals of every request run alone against every catalogue
AloneAnswers ==
    [input \in CallInputs |-> [cat \in Catalogues |-> Alone(input, cat)]]

AloneSteps ==
    [input \in CallInputs |->
        [cat \in Catalogues |-> StepsAlone(Begin(input.type, input.id), cat)]]

\* C16: concurrent stream() calls are independent: under every interleaving
\* of the calls at their await points each call passes only through the
\* locals it has when run alone and returns what it returns when run alone
\* against the same catalogue; nothing one call wrote is read by another.
C16_CallsIndependent ==
    /\ \A p \in Slots :
          frames[p].busy
          => frames[p].f \in AloneSteps[frames[p].input][catalogue]
    /\ \A input \in CallInputs :
          \A i \in DOMAIN answers[input] :
              answers[input][i] = AloneAnswers[input][catalogue]

\* two calls for different identifiers are suspended at once, each past its
\* first await, and one more call has already returned descriptors
C16_Witness ==
    /\ frames[1].busy /\ frames[2].busy
    /\ frames[1].input # frames[2].input
    /\ frames[1].f.pc \in {"episodes", "fallback"}
    /\ frames[2].f.pc \in {"episodes", "fallback"}
    /\ \E input \in CallInputs :
          /\ Len(answers[input]) > 0
          /\ Has(answers[input][1], "streams")
          /\ answers[input][1].streams # <<>>

----------------------------------------------------------------------------
(* C21 *)

\* the playback handle of the descriptor built last: the source's id, the
\* item's id when the source has none
BuiltHandle == HandleOf(built.mediaSource, built.item)

\* C21: in every descriptor built from a media source, each subtitle track's
\* URL uses the same handle as the descriptor's playback URL: the source id,
\* defaulting to the parent item's id when the source has no id; no subtitle
\* URL is built from an absent source id.
C21_SubtitleHandleIsPlaybackHandle ==
    BuiltFromSource
    => LET wanted == SelectSeq(BuiltStreams, Extractable)
           tracks == TracksOn(built.out.value)
       IN  /\ built.out.value.url = StreamUrl(BuiltHandle)
           /\ Len(tracks) = Len(wanted)
           /\ \A k \in DOMAIN tracks :
                 tracks[k].url = GetSubtitleUrl(BuiltHandle, wanted[k].Index)

----------------------------------------------------------------------------
(* C22 *)

\* C22: for every catalogue item, the external id getStremioIdFromItem
\* computes for its catalog entry (IMDb value, else tmdb:<v>, else tvdb:<v>,
\* else jellyfin:<id>) is classified by resolveStremioId under a recognized
\* scheme and, the upstream returning the items that truly carry that
\* provider id, resolves to a candidate list that contains that same item.
C22_CatalogIdResolvesToItem ==
    /\ pc # "idle" => request # NoRequest
    /\ pc = "resolved" => \E i \in DOMAIN items : items[i] = item

====
